---- MODULE Spec2Model ----
(***************************************************************************)
(* Saino-AI: the tool registry (BaseTool.registry, filled by               *)
(* BaseTool.__init_subclass__), the execution engine (BaseTool.execute)    *)
(* and the AI declaration export (BaseTool.get_declaration) of             *)
(* src/tools/base.py; tool discovery (ToolManager.load_tools of            *)
(* src/core/tool_manager.py); the mounting of tool pages at startup        *)
(* (startup_db_client of src/main.py); DatabaseManager of                  *)
(* src/database.py; and EnvManager of src/core/config.py.                  *)
(*                                                                         *)
(* The specifications share the variables and the initial state:           *)
(*   Spec          one invocation of BaseTool.execute on a tool instance,  *)
(*                 split at the suspension points of the coroutine;        *)
(*   SpecRegistry  class definitions running __init_subclass__;            *)
(*   SpecDecl      get_declaration and is_ai_enabled on a tool instance;   *)
(*   SpecConc      two invocations of execute interleaved at their awaits; *)
(*   SpecLoad      calls of load_tools on a directory that changes;        *)
(*   SpecStartup   tool classes with pages, then startup_db_client;        *)
(*   SpecDb        connect_to_database under backoff, db, close;           *)
(*   SpecEnv       set_key and get_key of EnvManager on one collection.    *)
(***************************************************************************)
EXTENDS Integers, Sequences, FiniteSets, TLC

VARIABLES
    classes,     \* the tool classes defined so far, in definition order
    registry,    \* BaseTool.registry: name -> index of the class in classes
    pc,          \* position of the invocation: "idle", "running", "done"
    tool,        \* the class attribute META of the instance being invoked
    origin,      \* who dispatched the call ("AI" or "UI"); execute never sees it
    kwargs,      \* the caller's keyword arguments of execute(**kwargs)
    received,    \* the keyword arguments _execute was called with
    execCalls,   \* how many times _execute was called in this invocation
    produced,    \* the chunks the implementation has passed to the sink
    observed,    \* what the caller has seen: chunks, then the return or the raise
    outcome,     \* how _execute ended: pending, returned(value) or raised(exc)
    completion,  \* how execute ended: pending, envelope(env) or raised(exc)
    subject,     \* SpecDecl: the META of the instance being exported
    declaration, \* SpecDecl: what get_declaration gave for subject
    aiEnabled,   \* SpecDecl: what is_ai_enabled gave for subject
    inv,         \* SpecConc: the state of each of the concurrent invocations
    toolDir,     \* SpecLoad: tool_dir, whether it is a directory and its files
    sysModules,  \* SpecLoad: the tool modules in sys.modules, as executed
    loadRuns,    \* SpecLoad: how many times load_tools was called
    loadOutcome, \* SpecLoad: how the last load_tools ended
    mounted,     \* SpecStartup: the routes added by app.include_router
    startup,     \* SpecStartup: "not_run", "done" or "failed"
    dbClient,    \* SpecDb: DatabaseManager._client, "None" or "client"
    dbHandle,    \* SpecDb: DatabaseManager._db, "None" or "db"
    dbClosed,    \* SpecDb: whether _client.close() was called on the client
    pinged,      \* SpecDb: whether a ping has ever answered
    dbTries,     \* SpecDb: calls backoff made in the current connect
    dbCall,      \* SpecDb: "idle", "trying", "returned" or "raised"
    dbCalls,     \* SpecDb: how many times connect_to_database was awaited
    dbRead,      \* SpecDb: what the last change of the db accessor gave
    lastAttempt, \* SpecDb: how the last call of the wrapped function went
    keysCollection, \* SpecEnv: api_keys, (owner_id, service) -> stored value
    userSet,     \* SpecEnv: the value last set as (user, service) key, or "None"
    systemSet,   \* SpecEnv: the value last set as system key of a service
    lastOp       \* SpecEnv: the last call of set_key or get_key and its result

regVars  == <<classes, registry>>
execVars == <<pc, tool, origin, kwargs, received, execCalls, produced,
              observed, outcome, completion>>
declVars == <<subject, declaration, aiEnabled>>
concVars == <<inv>>
loadVars == <<toolDir, sysModules, loadRuns, loadOutcome>>
pageVars == <<mounted, startup>>
dbVars   == <<dbClient, dbHandle, dbClosed, pinged, dbTries, dbCall, dbCalls,
              dbRead, lastAttempt>>
envVars  == <<keysCollection, userSet, systemSet, lastOp>>
extVars  == <<concVars, loadVars, pageVars, dbVars, envVars>>
vars     == <<regVars, execVars, declVars, extVars>>

(***************************************************************************)
(* Bounds of the model.                                                    *)
(***************************************************************************)
MaxClasses == 3    \* class definitions in one run of SpecRegistry
MaxChunks  == 4    \* chunks one _execute passes to the sink
MaxScript  == 2    \* chunks of one implementation in SpecConc
MaxRuns    == 2    \* calls of load_tools in SpecLoad
MaxPageClasses == 2    \* tool classes defined before startup in SpecStartup
MaxDbCalls == 2    \* awaits of connect_to_database in SpecDb

Range(s) == {s[i] : i \in DOMAIN s}

(***************************************************************************)
(* AccessLevel and ToolMeta.                                               *)
(***************************************************************************)
AccessLevel == {"AI_ONLY", "UI_ONLY", "BOTH", "DISABLED"}

\* ToolMeta(name, description, parameters, access_level); parameters is
\* "None" or the name of a pydantic model. The ui_* fields are opaque to the
\* engine and left out.
ToolMeta(n, d, p, a) ==
    [name |-> n, description |-> d, parameters |-> p, access_level |-> a,
     has_dedicated_page |-> FALSE, page_endpoint |-> "None"]

\* The class attribute META of a tool class: a ToolMeta instance, the value
\* None, some other object that is no ToolMeta, or not set at all (line 47
\* only annotates it).
MetaIs(m)  == [metaKind |-> "ToolMeta", META |-> <<m>>]
MetaNone   == [metaKind |-> "None",  META |-> <<>>]
MetaOther  == [metaKind |-> "other", META |-> <<>>]
MetaUnset  == [metaKind |-> "unset", META |-> <<>>]

(***************************************************************************)
(* Parameter schemas: pydantic models named by ToolMeta.parameters.        *)
(* CountParams is   count: int   (required)                                *)
(*                  limit: int = 10                                        *)
(* with pydantic's defaults: lax coercion, extra keys ignored.             *)
(***************************************************************************)
Schemas == {"CountParams"}

SchemaFields(p) == IF p = "CountParams" THEN <<"count", "limit">> ELSE <<>>
FieldRequired(p, f) == p = "CountParams" /\ f = "count"
FieldDefault(p, f)  == "int:10"

\* Values a caller can supply, written type:value.
IntValues == {"int:1", "int:7", "int:10"}
StrValues == {"str:1", "str:abc"}
Callback  == "callable"

\* int coercion in lax mode: an int is kept, a numeric string is parsed, any
\* other string is rejected (int_parsing).
IntCoercible(v) == v \in IntValues \/ v = "str:1"
IntCoerce(v)    == IF v = "str:1" THEN "int:1" ELSE v

\* Whether field f of pydantic model p fails on input kw.
\* (FieldFailsLenient: a validator that lets a missing required field pass.)
FieldFailsLenient(p, kw, f) ==
    f \in DOMAIN kw /\ ~IntCoercible(kw[f])
FieldFails(p, kw, f) ==
    IF f \in DOMAIN kw THEN ~IntCoercible(kw[f]) ELSE FieldRequired(p, f)

FieldError(p, kw, f) ==
    [loc |-> f, type |-> IF f \in DOMAIN kw THEN "int_parsing" ELSE "missing"]

\* e.errors() of the ValidationError p(**kw) raises: one entry per failing
\* field, in field order (empty when the input is valid).
ValidationErrors(p, kw) ==
    LET failing == SelectSeq(SchemaFields(p), LAMBDA f : FieldFails(p, kw, f))
    IN  [i \in DOMAIN failing |-> FieldError(p, kw, failing[i])]

\* p(**kw).model_dump() for a valid kw: every declared field, coerced or
\* defaulted; keys outside the model are dropped.
\* (ModelDumpRaw: the caller's mapping handed on as it came.)
ModelDumpRaw(p, kw) == kw
ModelDump(p, kw) ==
    [f \in Range(SchemaFields(p)) |->
        IF f \in DOMAIN kw THEN IntCoerce(kw[f]) ELSE FieldDefault(p, f)]

(***************************************************************************)
(* Exceptions, messages and envelopes.                                     *)
(***************************************************************************)
Exc(c, t, errs) == [cls |-> c, text |-> t, errors |-> errs]

IsValidationError(e) == e.cls = "ValidationError"

\* str(e)
Str(e) == [fmt |-> "str", exc |-> e]
\* f"پارامترهای نامعتبر: {e.errors()}"
InvalidParamsMessage(e) == [fmt |-> "invalid_params", errors |-> e.errors]
\* "ابزار فاقد متادیتای META است."
NoMetaMessage == [fmt |-> "no_meta"]

\* (SuccessWithMessage: a success envelope that also carries a message.)
SuccessWithMessage(r) ==
    [status |-> "success", result |-> r, message |-> NoMetaMessage]
Success(r) == [status |-> "success", result |-> r]
Error(m)   == [status |-> "error", message |-> m]

Pending       == [kind |-> "pending"]
Cancelled     == [kind |-> "cancelled"]
Returned(r)   == [kind |-> "returned", value |-> r]
Raised(e)     == [kind |-> "raised", exc |-> e]
Envelope(env) == [kind |-> "envelope", env |-> env]

ChunkEvent(c)      == [kind |-> "chunk", chunk |-> c]
EnvelopeEvent(env) == [kind |-> "envelope", env |-> env]
RaiseEvent(e)      == [kind |-> "raise", exc |-> e]

\* await stream_callback(chunk): the chunk reaches the caller's sink before
\* the coroutine goes on.
\* (SinkDeliverFirst: a sink that puts the newest chunk in front.)
SinkDeliverFirst(obs, c) == <<ChunkEvent(c)>> \o obs
SinkDeliver(obs, c) == Append(obs, ChunkEvent(c))

\* How execute ends when _execute raises e on the path without a schema
\* (lines 87-89) and on the path with one (lines 95-100).
\* (HandleNoSchemaReraise: the first path without its except clause.)
HandleNoSchemaReraise(e) == Raised(e)
HandleNoSchema(e) == Envelope(Error(Str(e)))

HandleSchema(e) ==
    IF IsValidationError(e)
    THEN Envelope(Error(InvalidParamsMessage(e)))
    ELSE Envelope(Error(Str(e)))

\* asyncio.CancelledError, raised at the await where a cancelled task is
\* suspended.  It derives from BaseException, so neither `except
\* ValidationError` nor `except Exception` (lines 87, 95, 98) catches it.
\* (HandleCancelledSwallow: a bare except that answers with an envelope.)
CancelledError == Exc("CancelledError", "", <<>>)
HandleCancelledSwallow(e) == Envelope(Error(Str(e)))
HandleCancelled(e) == Raised(e)

\* The keyword arguments execute passes to _execute: all of the caller's on
\* the path without a schema (line 85), the dumped model otherwise (line 93).
\* (NoSchemaArgsNone: a call  self._execute()  that passes nothing.)
NoSchemaArgsNone(kw) == <<>>
NoSchemaArgs(kw) == kw

SchemaArgs(p, kw) == ModelDump(p, kw)

(***************************************************************************)
(* Inputs of the invocation.                                               *)
(***************************************************************************)
Origins  == {"AI", "UI"}
Chunks   == {"c1", "c2", "c3"}
Results  == {"ok_true", "R"}

\* What an implementation may raise: an ordinary error, and a pydantic
\* ValidationError of its own (a tool that builds a model from bad data).
ImplFailures ==
    {Exc("RuntimeError", "boom", <<>>),
     Exc("ValidationError", "Inner",
         <<[loc |-> "inner", type |-> "missing"]>>)}

Keys == {"count", "limit", "extra", "stream_callback"}

KeyValues(k) ==
    CASE k = "count" -> {"int:1", "str:1", "str:abc"}
      [] k = "limit" -> {"int:7", "str:abc"}
      [] k = "extra" -> {"str:abc"}
      [] OTHER       -> {Callback}

Inputs ==
    UNION {{kw \in [D -> IntValues \cup StrValues \cup {Callback}] :
                \A k \in D : kw[k] \in KeyValues(k)} : D \in SUBSET Keys}

\* The instances invoked: every access level, with and without a schema,
\* and the two classes that carry no ToolMeta.
ExecMetas ==
    {MetaIs(ToolMeta("t", "d", p, a)) :
        p \in {"None"} \cup Schemas, a \in AccessLevel}
    \cup {MetaNone, MetaUnset}

(***************************************************************************)
(* BaseTool.execute.                                                       *)
(***************************************************************************)
\* execute ends without awaiting anything: with an envelope or by raising.
FinishAtOnce(c) ==
    /\ pc' = "done"
    /\ completion' = c
    /\ observed' = Append(observed,
                          IF c.kind = "envelope" THEN EnvelopeEvent(c.env)
                                                 ELSE RaiseEvent(c.exc))
    /\ UNCHANGED <<received, execCalls, produced, outcome>>

\* execute calls self._execute(**args) and awaits it.
CallExecute(args) ==
    /\ pc' = "running"
    /\ received' = args
    /\ execCalls' = execCalls + 1
    /\ UNCHANGED <<produced, observed, outcome, completion>>

\* The call  await instance.execute(**kw)  up to its first suspension.
Execute(m, kw, o) ==
    /\ pc = "idle"
    /\ tool' = m
    /\ kwargs' = kw
    /\ origin' = o
    /\ IF m.metaKind = "unset"
       THEN FinishAtOnce(Raised(Exc("AttributeError", "META", <<>>)))
       ELSE IF m.metaKind = "None"
       THEN FinishAtOnce(Envelope(Error(NoMetaMessage)))
       ELSE IF m.META[1].parameters = "None"
       THEN CallExecute(NoSchemaArgs(kw))
       ELSE LET p    == m.META[1].parameters
                errs == ValidationErrors(p, kw)
            IN  IF errs = <<>>
                THEN CallExecute(SchemaArgs(p, kw))
                ELSE FinishAtOnce(HandleSchema(Exc("ValidationError", p, errs)))
    /\ UNCHANGED <<regVars, declVars, extVars>>

\* _execute awaits stream_callback(c); it can only if it was given the sink.
ExecEmit(c) ==
    /\ pc = "running"
    /\ "stream_callback" \in DOMAIN received
    /\ Len(produced) < MaxChunks
    /\ produced' = Append(produced, c)
    /\ observed' = SinkDeliver(observed, c)
    /\ UNCHANGED <<pc, tool, origin, kwargs, received, execCalls, outcome,
                   completion, regVars, declVars, extVars>>

\* _execute returns r; execute wraps it (lines 86, 94).
ExecReturn(r) ==
    /\ pc = "running"
    /\ outcome' = Returned(r)
    /\ completion' = Envelope(Success(r))
    /\ observed' = Append(observed, EnvelopeEvent(Success(r)))
    /\ pc' = "done"
    /\ UNCHANGED <<tool, origin, kwargs, received, execCalls, produced,
                   regVars, declVars, extVars>>

\* _execute raises e; the except clauses of the path taken decide.
ExecRaise(e) ==
    /\ pc = "running"
    /\ outcome' = Raised(e)
    /\ LET c == IF tool.META[1].parameters = "None"
                THEN HandleNoSchema(e) ELSE HandleSchema(e)
       IN  /\ completion' = c
           /\ observed' = Append(observed,
                                 IF c.kind = "envelope"
                                 THEN EnvelopeEvent(c.env)
                                 ELSE RaiseEvent(c.exc))
    /\ pc' = "done"
    /\ UNCHANGED <<tool, origin, kwargs, received, execCalls, produced,
                   regVars, declVars, extVars>>

\* The transport lost its peer and cancels the task that awaits execute:
\* CancelledError is raised inside _execute at its await (a tool without a
\* handler of its own, as SystemStatusTool, ends there) and passes through
\* execute to the awaiting task.
ExecCancel ==
    /\ pc = "running"
    /\ outcome' = Cancelled
    /\ LET c == HandleCancelled(CancelledError)
       IN  /\ completion' = c
           /\ observed' = Append(observed,
                                 IF c.kind = "envelope"
                                 THEN EnvelopeEvent(c.env)
                                 ELSE RaiseEvent(c.exc))
    /\ pc' = "done"
    /\ UNCHANGED <<tool, origin, kwargs, received, execCalls, produced,
                   regVars, declVars, extVars>>

(***************************************************************************)
(* BaseTool.registry and BaseTool.__init_subclass__.                       *)
(***************************************************************************)
Names        == {"alpha", "beta"}
Descriptions == {"d1", "d2"}

\* What a class body gives META: a ToolMeta, None, or nothing (MetaUnset),
\* in which case the class sees its parent's META.
RegMetas    == {ToolMeta(n, "d1", "None", a) : n \in Names, a \in AccessLevel}
ClassBodies ==
    {MetaIs(m) : m \in RegMetas} \cup {MetaNone, MetaOther, MetaUnset}

\* cls.META as attribute lookup finds it; parent 0 is BaseTool itself.
ClassMeta(body, parent) ==
    IF body.metaKind # "unset" THEN body
    ELSE IF parent = 0 THEN MetaUnset
    ELSE classes[parent]

\* cls.registry[cls.META.name] = cls
\* (RegistryPutKeepFirst: setdefault, the first class of a name stays.)
RegistryPutKeepFirst(reg, n, id) ==
    [k \in DOMAIN reg \cup {n} |-> IF k \in DOMAIN reg THEN reg[k] ELSE id]
RegistryPut(reg, n, id) ==
    [k \in DOMAIN reg \cup {n} |-> IF k = n THEN id ELSE reg[k]]

\* The registry after __init_subclass__ ran for class number id whose META
\* is slot.
\* (InitSubclassNoCheck: the same without the test of line 52.
\*  InitSubclassByClassName: the key is the class's own name, not META.name.)
InitSubclassNoCheck(reg, id, slot) ==
    IF slot.metaKind = "ToolMeta"
    THEN RegistryPut(reg, slot.META[1].name, id)
    ELSE reg
InitSubclassByClassName(reg, id, slot) ==
    IF slot.metaKind = "ToolMeta"
    THEN IF slot.META[1].access_level # "DISABLED"
         THEN RegistryPut(reg, "ToolClass", id)
         ELSE reg
    ELSE reg
InitSubclass(reg, id, slot) ==
    IF slot.metaKind = "ToolMeta"
    THEN IF slot.META[1].access_level # "DISABLED"
         THEN RegistryPut(reg, slot.META[1].name, id)
         ELSE reg
    ELSE reg

\* class X(parent): body   -- Python runs __init_subclass__ for the new class.
DefineClass(body, parent) ==
    /\ Len(classes) < MaxClasses
    /\ LET slot == ClassMeta(body, parent)
           id   == Len(classes) + 1
       IN  /\ classes' = Append(classes, slot)
           /\ registry' = InitSubclass(registry, id, slot)
    /\ UNCHANGED <<execVars, declVars, extVars>>

(***************************************************************************)
(* BaseTool.get_declaration, is_ai_enabled, is_ui_enabled.                 *)
(***************************************************************************)
\* p.model_json_schema(): the declared properties and the required ones.
model_json_schema(p) ==
    [properties |-> Range(SchemaFields(p)),
     required   |-> {f \in Range(SchemaFields(p)) : FieldRequired(p, f)}]

\* (get_declaration_forgets_disabled: line 108 testing UI_ONLY alone.)
get_declaration_forgets_disabled(slot) ==
    IF slot.metaKind = "None"
    THEN Raised(Exc("AttributeError", "META", <<>>))
    ELSE LET m == slot.META[1]
         IN  IF m.access_level = "UI_ONLY"
             THEN [kind |-> "None"]
             ELSE [kind |-> "FunctionDeclaration", name |-> m.name,
                   description |-> m.description,
                   parameters |-> IF m.parameters # "None"
                                  THEN model_json_schema(m.parameters)
                                  ELSE <<>>]
get_declaration(slot) ==
    IF slot.metaKind = "None"
    THEN Raised(Exc("AttributeError", "META", <<>>))
    ELSE LET m == slot.META[1]
         IN  IF m.access_level \in {"UI_ONLY", "DISABLED"}
             THEN [kind |-> "None"]
             ELSE [kind |-> "FunctionDeclaration", name |-> m.name,
                   description |-> m.description,
                   parameters |-> IF m.parameters # "None"
                                  THEN model_json_schema(m.parameters)
                                  ELSE <<>>]

\* self.META and self.META.access_level in [...]: None when META is None.
is_ai_enabled(slot) ==
    IF slot.metaKind = "None" THEN "None"
    ELSE IF slot.META[1].access_level \in {"AI_ONLY", "BOTH"}
         THEN "True" ELSE "False"
is_ui_enabled(slot) ==
    IF slot.metaKind = "None" THEN "None"
    ELSE IF slot.META[1].access_level \in {"UI_ONLY", "BOTH"}
         THEN "True" ELSE "False"

\* The instances exported: every name, description, schema and access
\* level, and a class whose META is None.
DeclMetas ==
    {MetaIs(ToolMeta(n, d, p, a)) :
        n \in Names, d \in Descriptions,
        p \in {"None"} \cup Schemas, a \in AccessLevel}
    \cup {MetaNone}

NotCalled == [kind |-> "not_called"]

\* instance = tool_class()
Instantiate(m) ==
    /\ subject' = m
    /\ declaration' = NotCalled
    /\ aiEnabled' = "not_read"
    /\ UNCHANGED <<regVars, execVars, extVars>>

GetDeclaration ==
    /\ subject.metaKind # "unset"
    /\ declaration' = get_declaration(subject)
    /\ UNCHANGED <<subject, aiEnabled, regVars, execVars, extVars>>

ReadIsAiEnabled ==
    /\ subject.metaKind # "unset"
    /\ aiEnabled' = is_ai_enabled(subject)
    /\ UNCHANGED <<subject, declaration, regVars, execVars,
                   extVars>>

(***************************************************************************)
(* Two invocations of execute in one event loop, interleaved at their      *)
(* awaits.  Each call of execute has its own kwargs, validated_params and  *)
(* result (locals of lines 75-100); the instance and the registry are only *)
(* read.                                                                   *)
(***************************************************************************)
Invocations == {1, 2}

\* The tool classes discovered before the invocations start.
ConcBodies ==
    {MetaIs(ToolMeta("alpha", "d1", "None", "BOTH")),
     MetaIs(ToolMeta("beta", "d1", "CountParams", "BOTH"))}

ConcInputs ==
    {kw \in Inputs :
        \/ kw = [k \in {"stream_callback"} |-> Callback]
        \/ kw = [k \in {"count", "stream_callback"} |->
                    IF k = "count" THEN "int:1" ELSE Callback]
        \/ kw = [k \in {"count"} |-> "str:abc"]}

\* An implementation with no state of its own: what it does is fixed by the
\* call, here the chunks it passes to the sink and how it ends.
ConcChunks == {"c1", "c2"}
ChunkSeqs  ==
    UNION {[1..n -> ConcChunks] : n \in 0..MaxScript}
Scripts ==
    {[chunks |-> cs, end |-> e] :
        cs \in ChunkSeqs,
        e \in {Returned("R"), Raised(Exc("RuntimeError", "boom", <<>>))}}

IdleInvocation ==
    [pc |-> "idle", tool |-> MetaUnset, kwargs |-> <<>>,
     script |-> [chunks |-> <<>>, end |-> Pending],
     received |-> <<>>, produced |-> <<>>, observed |-> <<>>,
     completion |-> Pending]

\* What the caller sees of a completion.
CompletionEvent(c) ==
    IF c.kind = "envelope" THEN EnvelopeEvent(c.env) ELSE RaiseEvent(c.exc)

\* execute(**kw) on an instance whose META is m, up to its first await: the
\* arguments _execute is called with, or how execute ended without calling.
ExecuteStart(m, kw) ==
    IF m.metaKind = "unset"
    THEN [pc |-> "done", received |-> <<>>,
          completion |-> Raised(Exc("AttributeError", "META", <<>>))]
    ELSE IF m.metaKind = "None"
    THEN [pc |-> "done", received |-> <<>>,
          completion |-> Envelope(Error(NoMetaMessage))]
    ELSE IF m.META[1].parameters = "None"
    THEN [pc |-> "running", received |-> NoSchemaArgs(kw),
          completion |-> Pending]
    ELSE LET p    == m.META[1].parameters
             errs == ValidationErrors(p, kw)
         IN  IF errs = <<>>
             THEN [pc |-> "running", received |-> SchemaArgs(p, kw),
                   completion |-> Pending]
             ELSE [pc |-> "done", received |-> <<>>,
                   completion |->
                       HandleSchema(Exc("ValidationError", p, errs))]

\* How execute ends once _execute has ended with end.
ExecuteEnd(m, end) ==
    IF end.kind = "returned" THEN Envelope(Success(end.value))
    ELSE IF m.META[1].parameters = "None" THEN HandleNoSchema(end.exc)
    ELSE HandleSchema(end.exc)

\* The chunks the implementation passes on: it can only if it got the sink.
ScriptChunks(rcv, sc) ==
    IF "stream_callback" \in DOMAIN rcv THEN sc.chunks ELSE <<>>

\* The sink a call of _execute writes to: the stream_callback of its own
\* kwargs (line 85).
\* (SinkShared: every call writes to the sink of the first invocation.)
SinkShared(i) == 1
SinkOf(i) == i

\* A tool module is imported before the invocations start.
ConcDiscover(body) ==
    /\ \A i \in Invocations : inv[i].pc = "idle"
    /\ body \notin Range(classes)
    /\ DefineClass(body, 0)

\* Invocation i calls execute(**kw) on a fresh instance of the class
\* registered under n.
ConcExecute(i, n, kw, sc) ==
    /\ inv[i].pc = "idle"
    /\ n \in DOMAIN registry
    /\ LET m  == classes[registry[n]]
           st == ExecuteStart(m, kw)
       IN  inv' = [inv EXCEPT ![i] =
                      [pc |-> st.pc, tool |-> m, kwargs |-> kw, script |-> sc,
                       received |-> st.received, produced |-> <<>>,
                       observed |-> IF st.pc = "done"
                                    THEN <<CompletionEvent(st.completion)>>
                                    ELSE <<>>,
                       completion |-> st.completion]]
    /\ UNCHANGED <<regVars, execVars, declVars, loadVars, pageVars,
                   dbVars, envVars>>

\* The _execute of invocation i awaits stream_callback(chunk).
ConcEmit(i) ==
    /\ inv[i].pc = "running"
    /\ LET cs == ScriptChunks(inv[i].received, inv[i].script)
           k  == Len(inv[i].produced) + 1
       IN  /\ k <= Len(cs)
           /\ inv' = [inv EXCEPT ![i].produced = Append(@, cs[k]),
                                 ![SinkOf(i)].observed = SinkDeliver(@, cs[k])]
    /\ UNCHANGED <<regVars, execVars, declVars, loadVars, pageVars,
                   dbVars, envVars>>

\* The _execute of invocation i ends and execute wraps the result.
ConcFinish(i) ==
    /\ inv[i].pc = "running"
    /\ Len(inv[i].produced) =
           Len(ScriptChunks(inv[i].received, inv[i].script))
    /\ LET c == ExecuteEnd(inv[i].tool, inv[i].script.end)
       IN  inv' = [inv EXCEPT ![i].pc = "done",
                              ![i].completion = c,
                              ![i].observed = Append(@, CompletionEvent(c))]
    /\ UNCHANGED <<regVars, execVars, declVars, loadVars, pageVars,
                   dbVars, envVars>>

(***************************************************************************)
(* ToolManager.load_tools (src/core/tool_manager.py).                      *)
(* A source file is modelled by what importing it does: it defines at most *)
(* one tool class and then either ends or raises (a source that raises     *)
(* before its class statement, as example_tool.py does on its import of    *)
(* ToolFrontendComponent, defines none).                                   *)
(***************************************************************************)
Reserved   == {"__init__", "base"}
ToolStems  == {"a_tool", "b_tool"}

LoadBodies ==
    {MetaIs(ToolMeta(n, "d1", "None", a)) :
        n \in Names, a \in {"BOTH", "DISABLED"}}
Contents ==
    {[tool |-> t, fails |-> f] :
        t \in {<<>>} \cup {<<b>> : b \in LoadBodies}, f \in BOOLEAN}

\* The files  tool_dir.glob("*.py")  yields: the package's own two files and
\* the tool sources present, when tool_dir is a directory.
Present(dir) == {s \in ToolStems : dir.files[s] # <<>>}
Globbed(dir) == Reserved \cup Present(dir)

\* The orders in which glob may yield a set of files.
Orders(S) ==
    {o \in [1..Cardinality(S) -> S] : \A s \in S : \E i \in DOMAIN o : o[i] = s}

\* line 33: a module already in sys.modules is not executed again.
\* (ShouldLoadAlways: without that test.)
ShouldLoadAlways(stem, mods) == TRUE
ShouldLoad(stem, mods) == stem \notin DOMAIN mods

\* lines 42-43: the exception of a failing source is caught and logged.
\* (LoadFailureUncaught: without the try.)
LoadFailureUncaught(failed) == failed
LoadFailureEscapes(failed) == FALSE

\* lines 36-38: the module is put into sys.modules, then executed; its class
\* statement runs __init_subclass__.
ExecModule(st, stem, c) ==
    LET id == Len(st.classes) + 1
    IN  [classes  |-> IF c.tool = <<>> THEN st.classes
                      ELSE Append(st.classes, ClassMeta(c.tool[1], 0)),
         registry |-> IF c.tool = <<>> THEN st.registry
                      ELSE InitSubclass(st.registry, id,
                                        ClassMeta(c.tool[1], 0)),
         mods     |-> [k \in DOMAIN st.mods \cup {stem} |->
                          IF k = stem THEN [content |-> c, failed |-> c.fails]
                          ELSE st.mods[k]],
         raised   |-> LoadFailureEscapes(c.fails)]

\* lines 27-43: the loop over the files, in the order glob yields them.
RECURSIVE LoadAll(_, _, _)
LoadAll(order, dir, st) ==
    IF order = <<>> \/ st.raised THEN st
    ELSE LET stem == Head(order)
         IN  IF stem \in Reserved \/ ~ShouldLoad(stem, st.mods)
             THEN LoadAll(Tail(order), dir, st)
             ELSE LoadAll(Tail(order), dir,
                          ExecModule(st, stem, dir.files[stem][1]))

\* TOOLS.load_tools()
LoadTools(order) ==
    /\ loadRuns < MaxRuns
    /\ loadRuns' = loadRuns + 1
    /\ LET st0 == [classes |-> classes, registry |-> registry,
                   mods |-> sysModules, raised |-> FALSE]
           st  == IF toolDir.exists THEN LoadAll(order, toolDir, st0) ELSE st0
       IN  /\ classes' = st.classes
           /\ registry' = st.registry
           /\ sysModules' = st.mods
           /\ loadOutcome' = IF st.raised THEN "raised" ELSE "returned"
    /\ UNCHANGED <<toolDir, execVars, declVars, concVars, pageVars,
                   dbVars, envVars>>

\* Between runs the directory changes: a source is written or rewritten,
\* removed, or the directory itself is missing or back.
WriteSource(s, c) ==
    /\ toolDir' = [toolDir EXCEPT !.files[s] = <<c>>]
    /\ toolDir' # toolDir
    /\ UNCHANGED <<sysModules, loadRuns, loadOutcome, regVars, execVars,
                   declVars, concVars, pageVars, dbVars, envVars>>

RemoveSource(s) ==
    /\ toolDir.files[s] # <<>>
    /\ toolDir' = [toolDir EXCEPT !.files[s] = <<>>]
    /\ UNCHANGED <<sysModules, loadRuns, loadOutcome, regVars, execVars,
                   declVars, concVars, pageVars, dbVars, envVars>>

MoveToolDir ==
    /\ toolDir' = [toolDir EXCEPT !.exists = ~@]
    /\ UNCHANGED <<sysModules, loadRuns, loadOutcome, regVars, execVars,
                   declVars, concVars, pageVars, dbVars, envVars>>

(***************************************************************************)
(* Dedicated pages: ToolMeta.has_dedicated_page and page_endpoint, what    *)
(* get_page_router gives, and startup_db_client of src/main.py, which      *)
(* mounts the routers.                                                     *)
(***************************************************************************)
Endpoints == {"None", "", "/p1", "/p2"}

ToolMetaPage(n, hp, ep) ==
    [ToolMeta(n, "d1", "None", "BOTH") EXCEPT
        !.has_dedicated_page = hp, !.page_endpoint = ep]

\* A tool class with its META, what its get_page_router returns (None as
\* inherited from BaseTool, lines 120-132, or the router of an override) and
\* whether it can be instantiated: BaseTool is an ABC, so a class that does
\* not define _execute registers but raises TypeError when called.
PageBodies ==
    {[metaKind |-> "ToolMeta", META |-> <<ToolMetaPage(n, hp, ep)>>,
      page_router |-> r, instantiable |-> a] :
        n \in Names, hp \in BOOLEAN, ep \in Endpoints,
        r \in {"None", "router"}, a \in BOOLEAN}

get_page_router(slot) == slot.page_router

\* Python truth of page_endpoint: None and "" are false.
Truthy(ep) == ep \notin {"None", ""}

\* lines 40-43 for one registry entry: the route it adds, if any.
PageRoute(n, slot) ==
    IF slot.META[1].has_dedicated_page
    THEN IF get_page_router(slot) # "None" /\ Truthy(slot.META[1].page_endpoint)
         THEN {[prefix |-> slot.META[1].page_endpoint, tool |-> n]}
         ELSE {}
    ELSE {}

\* A tool module with a page is imported before the application starts.
DefinePageClass(body) ==
    /\ startup = "not_run"
    /\ Len(classes) < MaxPageClasses
    /\ DefineClass(body, 0)

\* TOOLS.registry.items(): a dict yields its keys in the order they were
\* first inserted, here the order of the first class of each name.
RegistryKeys ==
    LET first == {i \in DOMAIN classes :
                     \A j \in DOMAIN classes :
                         classes[j].META[1].name = classes[i].META[1].name
                            => j >= i}
        idx   == SelectSeq([i \in DOMAIN classes |-> i],
                           LAMBDA i : i \in first)
    IN  [k \in DOMAIN idx |-> classes[idx[k]].META[1].name]

\* lines 38-44: the loop; tool_class() of a class that cannot be
\* instantiated raises and ends it.
RECURSIVE MountAll(_, _)
MountAll(keys, routes) ==
    IF keys = <<>> THEN [routes |-> routes, raised |-> FALSE]
    ELSE LET slot == classes[registry[Head(keys)]]
         IN  IF ~slot.instantiable
             THEN [routes |-> routes, raised |-> TRUE]
             ELSE MountAll(Tail(keys),
                           routes \cup PageRoute(Head(keys), slot))

\* startup_db_client: DB.connect() returns or raises; the loop over the
\* registry is inside the same try and runs only after it returned, and the
\* one except clause (lines 46-47) ends the handler for either failure.
StartupDbClient(dbConnects) ==
    /\ startup = "not_run"
    /\ IF dbConnects
       THEN LET m == MountAll(RegistryKeys, mounted)
            IN  /\ mounted' = m.routes
                /\ startup' = IF m.raised THEN "failed" ELSE "done"
       ELSE /\ mounted' = mounted
            /\ startup' = "failed"
    /\ UNCHANGED <<regVars, execVars, declVars, concVars, loadVars,
                   dbVars, envVars>>

(***************************************************************************)
(* DatabaseManager (src/database.py).  connect_to_database is wrapped by   *)
(* backoff.on_exception(backoff.expo, Exception, max_tries=5): the wrapper *)
(* calls it again after each Exception, sleeping in between, until a call  *)
(* returns or max_tries calls have been made, and then re-raises.          *)
(***************************************************************************)
max_tries == 5

\* How one call of the wrapped function can go: the client constructor
\* raises, the ping raises, or the ping answers.
AttemptOutcomes == {"client_fails", "ping_fails", "ok"}

\* line 16 when both fields are set: the truth test gives True, or raises
\* where the driver's database object refuses bool().
GuardOutcomes == {"true", "raises"}

\* lines 26-27: _db is assigned after the awaited ping returned.
\* (HandleAfterPingEager: the assignment placed before the ping.)
HandleAfterPingEager(pingOK, db) == "db"
HandleAfterPing(pingOK, db) == IF pingOK THEN "db" ELSE db

\* backoff gives up once max_tries calls were made.
GiveUp(tries) == tries >= max_tries

\* await db_manager.connect_to_database()
ConnectToDatabase ==
    /\ dbCall # "trying"
    /\ dbCalls < MaxDbCalls
    /\ dbCalls' = dbCalls + 1
    /\ dbCall' = "trying"
    /\ dbTries' = 0
    /\ lastAttempt' = "none"
    /\ UNCHANGED <<dbClient, dbHandle, dbClosed, pinged, dbRead>>
    /\ UNCHANGED <<regVars, execVars, declVars, concVars, loadVars,
                   pageVars, envVars>>

\* One call of the wrapped function (lines 15-31), and what backoff does
\* with its outcome.
Attempt(o, g) ==
    /\ dbCall = "trying"
    /\ dbTries' = dbTries + 1
    /\ IF dbClient # "None" /\ dbHandle # "None"
       THEN /\ lastAttempt' = IF g = "true" THEN "already" ELSE "guard_raises"
            /\ dbCall' = IF g = "true" THEN "returned"
                         ELSE IF GiveUp(dbTries + 1) THEN "raised"
                         ELSE "trying"
            /\ UNCHANGED <<dbClient, dbHandle, dbClosed, pinged>>
       ELSE /\ lastAttempt' = o
            /\ dbClient' = IF o = "client_fails" THEN dbClient ELSE "client"
            /\ dbClosed' = IF o = "client_fails" THEN dbClosed ELSE FALSE
            /\ dbHandle' = IF o = "client_fails" THEN dbHandle
                           ELSE HandleAfterPing(o = "ok", dbHandle)
            /\ pinged' = (pinged \/ o = "ok")
            /\ dbCall' = IF o = "ok" THEN "returned"
                         ELSE IF GiveUp(dbTries + 1) THEN "raised"
                         ELSE "trying"
    /\ UNCHANGED <<dbCalls, dbRead>>
    /\ UNCHANGED <<regVars, execVars, declVars, concVars, loadVars,
                   pageVars, envVars>>

\* db_manager.db
ReadDb ==
    /\ dbRead' = IF dbHandle = "None" THEN "RuntimeError" ELSE "handle"
    /\ dbRead' # dbRead
    /\ UNCHANGED <<dbClient, dbHandle, dbClosed, pinged, dbTries, dbCall,
                   dbCalls, lastAttempt>>
    /\ UNCHANGED <<regVars, execVars, declVars, concVars, loadVars,
                   pageVars, envVars>>

\* await db_manager.close_database_connection(): closes the client and
\* resets neither field.
CloseDatabaseConnection ==
    /\ dbCall # "trying"
    /\ dbClient # "None"
    /\ ~dbClosed
    /\ dbClosed' = TRUE
    /\ UNCHANGED <<dbClient, dbHandle, pinged, dbTries, dbCall, dbCalls,
                   dbRead, lastAttempt>>
    /\ UNCHANGED <<regVars, execVars, declVars, concVars, loadVars,
                   pageVars, envVars>>

(***************************************************************************)
(* EnvManager (src/core/config.py): API keys kept in the collection        *)
(* api_keys, one document per (owner_id, service), the value encrypted.    *)
(* The collection is a function from (owner_id, service) to the stored     *)
(* value: update_one with upsert on that filter is its only writer.        *)
(***************************************************************************)
UserIds   == {"u1", "u2", "system"}
Services  == {"openai", "gemini"}
ApiKeyValues == {"k1", "k2"}

\* cipher_suite.encrypt(value.encode()).decode() and its inverse.
Encrypt(v) == [token |-> v]
Decrypt(t) == t.token

\* keys_collection.find_one({"owner_id": owner, "service": service}): the
\* document as a sequence of length one, or empty for None.
FindOne(coll, owner, service) ==
    IF <<owner, service>> \in DOMAIN coll
    THEN <<[owner_id |-> owner, service |-> service,
            value |-> coll[<<owner, service>>]]>>
    ELSE <<>>

\* keys_collection.update_one(filter, {"$set": {"value": t}}, upsert=True)
UpdateOneUpsert(coll, owner, service, t) ==
    [k \in DOMAIN coll \cup {<<owner, service>>} |->
        IF k = <<owner, service>> THEN t ELSE coll[k]]

\* line 27
OwnerId(user, is_system_key) == IF is_system_key THEN "system" ELSE user

\* EnvManager(db, user).get_key(service) on collection coll.
get_key(coll, user, service) ==
    LET user_key   == FindOne(coll, user, service)
        system_key == FindOne(coll, "system", service)
    IN  IF user_key # <<>> THEN Decrypt(user_key[1].value)
        ELSE IF system_key # <<>> THEN Decrypt(system_key[1].value)
        ELSE "None"

\* await EnvManager(db, user).set_key(service, value, is_system_key)
SetKey(user, service, value, is_system_key) ==
    /\ keysCollection' =
           UpdateOneUpsert(keysCollection, OwnerId(user, is_system_key),
                           service, Encrypt(value))
    /\ IF is_system_key
       THEN /\ systemSet' = [systemSet EXCEPT ![service] = value]
            /\ userSet' = userSet
       ELSE /\ userSet' = [userSet EXCEPT ![<<user, service>>] = value]
            /\ systemSet' = systemSet
    /\ lastOp' = [op |-> "set", user |-> user, service |-> service,
                  system |-> is_system_key, result |-> value]
    /\ UNCHANGED <<regVars, execVars, declVars, concVars, loadVars, pageVars,
                   dbVars>>

\* await EnvManager(db, user).get_key(service)
GetKey(user, service) ==
    /\ lastOp' = [op |-> "get", user |-> user, service |-> service,
                  system |-> FALSE,
                  result |-> get_key(keysCollection, user, service)]
    /\ UNCHANGED <<keysCollection, userSet, systemSet>>
    /\ UNCHANGED <<regVars, execVars, declVars, concVars, loadVars, pageVars,
                   dbVars>>

Init ==
    /\ classes = <<>>
    /\ registry = <<>>
    /\ pc = "idle"
    /\ tool = MetaUnset
    /\ origin = "AI"
    /\ kwargs = <<>>
    /\ received = <<>>
    /\ execCalls = 0
    /\ produced = <<>>
    /\ observed = <<>>
    /\ outcome = Pending
    /\ completion = Pending
    /\ subject = MetaUnset
    /\ declaration = NotCalled
    /\ aiEnabled = "not_read"
    /\ inv = [i \in Invocations |-> IdleInvocation]
    /\ toolDir = [exists |-> TRUE, files |-> [s \in ToolStems |-> <<>>]]
    /\ sysModules = <<>>
    /\ loadRuns = 0
    /\ loadOutcome = "none"
    /\ mounted = {}
    /\ startup = "not_run"
    /\ dbClient = "None"
    /\ dbHandle = "None"
    /\ dbClosed = FALSE
    /\ pinged = FALSE
    /\ dbTries = 0
    /\ dbCall = "idle"
    /\ dbCalls = 0
    /\ dbRead = "none"
    /\ lastAttempt = "none"
    /\ keysCollection = <<>>
    /\ userSet = [k \in UserIds \X Services |-> "None"]
    /\ systemSet = [s \in Services |-> "None"]
    /\ lastOp = [op |-> "none", user |-> "u1", service |-> "openai",
                 system |-> FALSE, result |-> "None"]

Next ==
    \/ \E m \in ExecMetas, kw \in Inputs, o \in Origins : Execute(m, kw, o)
    \/ \E c \in Chunks : ExecEmit(c)
    \/ \E r \in Results : ExecReturn(r)
    \/ \E e \in ImplFailures : ExecRaise(e)
    \/ ExecCancel

Spec == Init /\ [][Next]_vars

NextRegistry ==
    \E body \in ClassBodies, parent \in 0..Len(classes) :
        DefineClass(body, parent)

SpecRegistry == Init /\ [][NextRegistry]_vars

NextDecl ==
    \/ \E m \in DeclMetas : Instantiate(m)
    \/ GetDeclaration
    \/ ReadIsAiEnabled

SpecDecl == Init /\ [][NextDecl]_vars

NextConc ==
    \/ \E body \in ConcBodies : ConcDiscover(body)
    \/ \E i \in Invocations, n \in Names, kw \in ConcInputs, sc \in Scripts :
           ConcExecute(i, n, kw, sc)
    \/ \E i \in Invocations : ConcEmit(i)
    \/ \E i \in Invocations : ConcFinish(i)

SpecConc == Init /\ [][NextConc]_vars

NextLoad ==
    \/ \E o \in Orders(Globbed(toolDir)) : LoadTools(o)
    \/ \E s \in ToolStems, c \in Contents : WriteSource(s, c)
    \/ \E s \in ToolStems : RemoveSource(s)
    \/ MoveToolDir

SpecLoad == Init /\ [][NextLoad]_vars

NextStartup ==
    \/ \E body \in PageBodies : DefinePageClass(body)
    \/ \E dbConnects \in BOOLEAN : StartupDbClient(dbConnects)

SpecStartup == Init /\ [][NextStartup]_vars

NextDb ==
    \/ ConnectToDatabase
    \/ \E o \in AttemptOutcomes, g \in GuardOutcomes : Attempt(o, g)
    \/ ReadDb
    \/ CloseDatabaseConnection

SpecDb == Init /\ [][NextDb]_vars

NextEnv ==
    \/ \E u \in UserIds, s \in Services, v \in ApiKeyValues,
          sys \in BOOLEAN : SetKey(u, s, v, sys)
    \/ \E u \in UserIds, s \in Services : GetKey(u, s)

SpecEnv == Init /\ [][NextEnv]_vars

(***************************************************************************)
(* Properties.                                                             *)
(***************************************************************************)
IsTool(slot) == slot.metaKind = "ToolMeta"

\* The class just defined by a step of SpecRegistry, and its number.
Defined  == Len(classes') = Len(classes) + 1
NewId    == Len(classes')
NewClass == classes'[Len(classes')]

\* C1: after any sequence of class definitions, with any mix of access
\* levels, no entry of the registry is a class whose META.access_level is
\* DISABLED.
C1_NoDisabledInRegistry ==
    \A n \in DOMAIN registry :
        /\ registry[n] \in DOMAIN classes
        /\ IsTool(classes[registry[n]])
        /\ classes[registry[n]].META[1].access_level # "DISABLED"

\* A DISABLED class and an enabled one were both defined, and the registry
\* holds an entry.
C1_Witness ==
    /\ \E i \in DOMAIN classes :
           IsTool(classes[i]) /\ classes[i].META[1].access_level = "DISABLED"
    /\ DOMAIN registry # {}

\* Some class defined earlier carries a ToolMeta with the name n.
EarlierNamed(n) ==
    \E i \in DOMAIN classes : IsTool(classes[i]) /\ classes[i].META[1].name = n

\* The registry after the step holds the new class under n and is otherwise
\* as before.
SecondWins(n) ==
    /\ DOMAIN registry' = DOMAIN registry \cup {n}
    /\ registry'[n] = NewId
    /\ \A k \in DOMAIN registry \ {n} : registry'[k] = registry[k]

\* C2 as stated: whenever a class is defined whose descriptor has the name of
\* a descriptor defined before it, the registry then holds the new class
\* under that name, and its other entries are unchanged.
C2_SecondRegistrationWins ==
    [][(Defined /\ IsTool(NewClass) /\ EarlierNamed(NewClass.META[1].name))
          => SecondWins(NewClass.META[1].name)]_vars

\* C2 amended: the same, provided the second descriptor is not DISABLED.
C2_SecondEnabledRegistrationWins ==
    [][(/\ Defined
        /\ IsTool(NewClass)
        /\ EarlierNamed(NewClass.META[1].name)
        /\ NewClass.META[1].access_level # "DISABLED")
          => SecondWins(NewClass.META[1].name)]_vars

\* Two enabled classes of one name were defined, the registry holds the
\* later one, and it holds an entry under another name too.
C2_Witness ==
    \E i, j \in DOMAIN classes :
        /\ i < j
        /\ IsTool(classes[i]) /\ IsTool(classes[j])
        /\ classes[i].META[1].access_level # "DISABLED"
        /\ classes[j].META[1].access_level # "DISABLED"
        /\ classes[i].META[1].name = classes[j].META[1].name
        /\ classes[j].META[1].name \in DOMAIN registry
        /\ registry[classes[j].META[1].name] = j
        /\ DOMAIN registry # {classes[j].META[1].name}

\* The invocation is of a tool with a ToolMeta, with or without a schema.
HasSchema == IsTool(tool) /\ tool.META[1].parameters # "None"
NoSchema  == IsTool(tool) /\ tool.META[1].parameters = "None"

\* The declared fields of the invoked tool's schema that the caller's input
\* gets wrong: required and absent, or present and not an int.
Declared == Range(SchemaFields(tool.META[1].parameters))
MissingRequired ==
    {f \in Declared \ DOMAIN kwargs : FieldRequired(tool.META[1].parameters, f)}
IllTyped ==
    {f \in Declared \cap DOMAIN kwargs : ~IntCoercible(kwargs[f])}

ErrorEnvelope ==
    completion.kind = "envelope" /\ completion.env.status = "error"

\* C3: when the input fails the tool's schema, execute returns an error
\* envelope whose message lists exactly the failing fields, each with its
\* cause, and _execute is not called.
C3_InvalidInputNeverRuns ==
    (pc # "idle" /\ HasSchema /\ MissingRequired \cup IllTyped # {}) =>
        /\ pc = "done"
        /\ execCalls = 0
        /\ outcome = Pending
        /\ ErrorEnvelope
        /\ completion.env.message.fmt = "invalid_params"
        /\ LET errs == completion.env.message.errors
           IN  /\ {errs[i].loc : i \in DOMAIN errs} = MissingRequired \cup IllTyped
               /\ \A i \in DOMAIN errs :
                      errs[i].type = IF errs[i].loc \in MissingRequired
                                     THEN "missing" ELSE "int_parsing"

\* An invocation ended whose input lacked the required field and carried an
\* ill-typed optional one.
C3_Witness ==
    /\ pc = "done"
    /\ HasSchema
    /\ MissingRequired # {}
    /\ IllTyped # {}
    /\ ErrorEnvelope

\* C4: whatever _execute raises, execute returns an error envelope whose
\* message is str() of what was raised.
C4_FailureBecomesErrorEnvelope ==
    (pc = "done" /\ outcome.kind = "raised") =>
        completion = Envelope(Error(Str(outcome.exc)))

\* The access levels a call of origin o may run.
AllowedFor(o) ==
    IF o = "AI" THEN {"AI_ONLY", "BOTH"} ELSE {"UI_ONLY", "BOTH"}

\* C5: a call whose origin the tool's access level does not allow ends in an
\* error envelope and never runs _execute.
C5_AccessDeniedByOrigin ==
    (pc # "idle" /\ IsTool(tool)
       /\ tool.META[1].access_level \notin AllowedFor(origin)) =>
        /\ execCalls = 0
        /\ pc = "done"
        /\ ErrorEnvelope

ChunkEvents(chunks) == [i \in DOMAIN chunks |-> ChunkEvent(chunks[i])]

\* C6: the caller sees the chunks in the order the implementation produced
\* them, all of them before the envelope, then {success, R}, and nothing
\* after the envelope.
C6_ChunksInOrderThenEnvelope ==
    /\ pc = "running" => observed = ChunkEvents(produced)
    /\ (pc = "done" /\ outcome.kind = "returned") =>
           observed = ChunkEvents(produced)
                        \o <<EnvelopeEvent(Success(outcome.value))>>
    /\ \A i \in DOMAIN observed :
           observed[i].kind # "chunk" => i = Len(observed)

\* An invocation that produced c1, c2, c3 and then returned R.
C6_Witness ==
    /\ pc = "done"
    /\ produced = <<"c1", "c2", "c3">>
    /\ outcome = Returned("R")

\* C7: a tool that emits one chunk and then raises: the caller sees the
\* chunk, then the error envelope with str() of the fault; execute does not
\* raise.
C7_ChunkThenErrorEnvelope ==
    (pc = "done" /\ Len(produced) = 1 /\ outcome.kind = "raised") =>
        /\ completion.kind = "envelope"
        /\ observed = <<ChunkEvent(produced[1]),
                        EnvelopeEvent(Error(Str(outcome.exc)))>>

C7_Witness ==
    /\ pc = "done"
    /\ produced = <<"c1">>
    /\ outcome = Raised(Exc("RuntimeError", "boom", <<>>))

\* C8: get_declaration gives None for UI_ONLY and DISABLED, a declaration
\* with the tool's own name and description for AI_ONLY and BOTH, and gives
\* a declaration exactly when is_ai_enabled is true.
C8_DeclarationIffAiEnabled ==
    (IsTool(subject) /\ declaration # NotCalled) =>
        LET m == subject.META[1]
        IN  /\ m.access_level \in {"UI_ONLY", "DISABLED"}
                  => declaration.kind = "None"
            /\ m.access_level \in {"AI_ONLY", "BOTH"}
                  => /\ declaration.kind = "FunctionDeclaration"
                     /\ declaration.name = m.name
                     /\ declaration.description = m.description
            /\ aiEnabled # "not_read"
                  => (aiEnabled = "True"
                        <=> declaration.kind = "FunctionDeclaration")

\* get_declaration and is_ai_enabled were both asked of a DISABLED tool.
C8_Witness ==
    /\ IsTool(subject)
    /\ subject.META[1].access_level = "DISABLED"
    /\ declaration = [kind |-> "None"]
    /\ aiEnabled = "False"

\* C9 as stated: without a schema every input is accepted and none of the
\* caller's fields reaches _execute.
C9_NoSchemaPassesNoFields ==
    (pc # "idle" /\ NoSchema) =>
        /\ execCalls = 1
        /\ DOMAIN received \cap DOMAIN kwargs = {}

\* C9 amended: without a schema every input is accepted unvalidated and all
\* of the caller's fields reach _execute unchanged.
C9_NoSchemaPassesAllFields ==
    (pc # "idle" /\ NoSchema) =>
        /\ execCalls = 1
        /\ received = kwargs
        /\ (ErrorEnvelope => completion.env.message.fmt # "invalid_params")

\* A tool without a schema ran on an input with fields of its own.
C9_Witness ==
    /\ pc = "done"
    /\ NoSchema
    /\ DOMAIN kwargs = {"count", "extra"}
    /\ kwargs["count"] = "str:abc"
    /\ outcome.kind = "returned"

\* C10: on an input that satisfies the schema, _execute is called with
\* exactly the declared fields, each an int: the caller's value coerced, or
\* the default where the caller gave none.
C10_ValidInputPassesDeclaredFields ==
    (pc # "idle" /\ HasSchema /\ MissingRequired \cup IllTyped = {}) =>
        /\ execCalls = 1
        /\ DOMAIN received = Declared
        /\ \A f \in Declared :
               /\ received[f] \in IntValues
               /\ received[f] =
                    IF f \in DOMAIN kwargs
                    THEN (IF kwargs[f] \in StrValues THEN "int:1" ELSE kwargs[f])
                    ELSE "int:10"

\* A valid input with a numeric string, no limit, a key outside the schema
\* and the sink: _execute got count = 1 and limit = 10 only.
C10_Witness ==
    /\ pc = "done"
    /\ HasSchema
    /\ DOMAIN kwargs = {"count", "extra", "stream_callback"}
    /\ kwargs["count"] = "str:1"
    /\ received = [f \in {"count", "limit"} |->
                      IF f = "count" THEN "int:1" ELSE "int:10"]
    /\ outcome.kind = "returned"

\* A step of SpecLoad that is a call of load_tools, and the sources that call
\* executes: those present and not yet in sys.modules.
LoadStep == loadRuns' = loadRuns + 1
Globs    == IF toolDir.exists THEN Present(toolDir) ELSE {}
Fresh    == Globs \ DOMAIN sysModules

\* The names of the non-disabled tools a source content defines.
ToolNames(c) ==
    {c.tool[i].META[1].name : i \in
        {j \in DOMAIN c.tool : c.tool[j].META[1].access_level # "DISABLED"}}

\* C11: a source that fails to load never keeps the others from being
\* loaded.  Whatever the sources and whichever of them fail, load_tools
\* returns without raising, has executed every non-reserved source it had
\* not loaded before, and the registry then holds every (non-disabled) tool
\* of each such source that did not fail; reserved sources are not loaded.
C11_FailingSourceIsolated ==
    [][LoadStep =>
          /\ loadOutcome' = "returned"
          /\ DOMAIN sysModules' = DOMAIN sysModules \cup Fresh
          /\ \A s \in Fresh :
                /\ sysModules'[s].content = toolDir.files[s][1]
                /\ ~sysModules'[s].failed =>
                       \A n \in ToolNames(sysModules'[s].content) :
                           /\ n \in DOMAIN registry'
                           /\ registry'[n] > Len(classes)
                           /\ classes'[registry'[n]].META[1].name = n]_vars

\* load_tools has returned after one source failed and another loaded, and
\* the tool of the one that loaded is registered.
C11_Witness ==
    /\ loadOutcome = "returned"
    /\ \E s, t \in DOMAIN sysModules :
           /\ sysModules[s].failed
           /\ ~sysModules[t].failed
           /\ ToolNames(sysModules[t].content) # {}
           /\ ToolNames(sysModules[t].content) \subseteq DOMAIN registry

\* C12 as stated: a second run of load_tools resets and rebuilds; after it
\* the registry holds exactly the non-disabled tools of the sources present
\* at that run (of those that load, and at most those of all present).
C12_RerunResetsAndRebuilds ==
    [][(LoadStep /\ loadRuns >= 1) =>
          /\ UNION {ToolNames(toolDir.files[s][1]) :
                       s \in {t \in Globs : ~toolDir.files[t][1].fails}}
                \subseteq DOMAIN registry'
          /\ DOMAIN registry' \subseteq
                UNION {ToolNames(toolDir.files[s][1]) : s \in Globs}]_vars

\* C12 amended: a second run is an incremental merge.  It executes only the
\* sources not yet in sys.modules, never executes a loaded one again
\* (changed, removed or failed as it may be), and removes no registry entry:
\* an entry changes only by a class defined in this run taking its name.
C12_RerunMergesIncrementally ==
    [][(LoadStep /\ loadRuns >= 1) =>
          /\ \A s \in DOMAIN sysModules :
                /\ s \in DOMAIN sysModules'
                /\ sysModules'[s] = sysModules[s]
          /\ DOMAIN sysModules' = DOMAIN sysModules \cup Fresh
          /\ Len(classes') =
                Len(classes)
                  + Cardinality({s \in Fresh : toolDir.files[s][1].tool # <<>>})
          /\ \A i \in DOMAIN classes : classes'[i] = classes[i]
          /\ \A n \in DOMAIN registry :
                /\ n \in DOMAIN registry'
                /\ registry'[n] # registry[n] => registry'[n] > Len(classes)]_vars

\* After a second run the registry still holds the tool of a source that was
\* loaded by the first run and is gone, or disabled, by now; and a source
\* that failed in the first run stays unloaded although it was repaired.
C12_Witness ==
    /\ loadRuns = 2
    /\ toolDir.exists
    /\ \E s \in DOMAIN sysModules :
           /\ ~sysModules[s].failed
           /\ ToolNames(sysModules[s].content) # {}
           /\ ToolNames(sysModules[s].content) \subseteq DOMAIN registry
           /\ \/ toolDir.files[s] = <<>>
              \/ /\ toolDir.files[s] # <<>>
                 /\ ToolNames(toolDir.files[s][1]) = {}
    /\ \E s \in DOMAIN sysModules :
           /\ sysModules[s].failed
           /\ toolDir.files[s] # <<>>
           /\ ~toolDir.files[s][1].fails
           /\ ToolNames(toolDir.files[s][1]) # {}
           /\ ToolNames(toolDir.files[s][1]) \cap DOMAIN registry = {}

\* C14: when _execute returns V, execute returns exactly {status: success,
\* result: V}; so a tool without parameters that returns {"ok": true}, called
\* with no arguments, yields {status: success, result: {"ok": true}}.  Every
\* envelope is either status success with a result and no message, or status
\* error with a message and no result.
C14_SuccessEnvelopeExact ==
    /\ (pc = "done" /\ outcome.kind = "returned") =>
           /\ completion.kind = "envelope"
           /\ completion.env = [status |-> "success", result |-> outcome.value]
           /\ observed[Len(observed)] = EnvelopeEvent(completion.env)
    /\ completion.kind = "envelope" =>
           \/ /\ completion.env.status = "success"
              /\ DOMAIN completion.env = {"status", "result"}
           \/ /\ completion.env.status = "error"
              /\ DOMAIN completion.env = {"status", "message"}

\* A tool without parameters, called with no arguments, returned {"ok": true}.
C14_Witness ==
    /\ pc = "done"
    /\ NoSchema
    /\ kwargs = <<>>
    /\ outcome = Returned("ok_true")
    /\ completion.kind = "envelope"

\* The class registry entry n names, and whether it is to get a route.
Entry(n) == classes[registry[n]]
PageQualifies(slot) ==
    /\ slot.META[1].has_dedicated_page
    /\ slot.META[1].page_endpoint \notin {"None", ""}
    /\ slot.page_router # "None"

\* C15: a tool that claims a dedicated page but has no page_endpoint is
\* registered all the same and gets no route; and once startup has run, a
\* route is mounted for a registered tool exactly if has_dedicated_page is
\* true, page_endpoint is non-empty and get_page_router gave a router, under
\* that tool's page_endpoint and no other prefix.
C15_RouteIffPageEndpointRouter ==
    /\ \A i \in DOMAIN classes :
           (/\ "page_router" \in DOMAIN classes[i]
            /\ classes[i].META[1].has_dedicated_page
            /\ classes[i].META[1].page_endpoint \in {"None", ""}
            /\ \A j \in DOMAIN classes :
                   j > i => classes[j].META[1].name # classes[i].META[1].name)
             => /\ classes[i].META[1].name \in DOMAIN registry
                /\ registry[classes[i].META[1].name] = i
                /\ \A r \in mounted : r.tool # classes[i].META[1].name
    /\ startup # "not_run" =>
           /\ \A n \in DOMAIN registry :
                  /\ (\E r \in mounted : r.tool = n) <=> PageQualifies(Entry(n))
                  /\ \A r \in mounted :
                         r.tool = n => r.prefix = Entry(n).META[1].page_endpoint
           /\ \A r \in mounted : r.tool \in DOMAIN registry

\* What invocation record r shows its caller when it runs alone: nothing of
\* it depends on anything but its own tool, arguments and implementation.
AloneObserved(r) ==
    LET st == ExecuteStart(r.tool, r.kwargs)
    IN  IF st.pc = "done"
        THEN <<CompletionEvent(st.completion)>>
        ELSE ChunkEvents(ScriptChunks(st.received, r.script))
               \o <<CompletionEvent(ExecuteEnd(r.tool, r.script.end))>>

AloneCompletion(r) ==
    LET st == ExecuteStart(r.tool, r.kwargs)
    IN  IF st.pc = "done" THEN st.completion
        ELSE ExecuteEnd(r.tool, r.script.end)

\* C16: concurrent invocations are independent.  No step of an invocation
\* changes the registry, and however two invocations (of one tool or of two)
\* interleave at their awaits, each one's chunk sequence and final envelope
\* are those it has when it runs alone.
C16_ConcurrentInvocationsIndependent ==
    /\ [](\A i \in Invocations :
             /\ inv[i].pc = "running" =>
                    /\ inv[i].observed = ChunkEvents(inv[i].produced)
                    /\ inv[i].observed =
                           SubSeq(AloneObserved(inv[i]), 1, Len(inv[i].observed))
             /\ inv[i].pc = "done" =>
                    /\ inv[i].observed = AloneObserved(inv[i])
                    /\ inv[i].completion = AloneCompletion(inv[i]))
    /\ [][inv' # inv => (registry' = registry /\ classes' = classes)]_vars

\* Both invocations, of the same tool, are suspended in the middle of their
\* streams, each with one of its two chunks delivered; two tools are
\* registered.
C16_Witness ==
    /\ \A i \in Invocations :
           /\ inv[i].pc = "running"
           /\ Len(inv[i].produced) = 1
    /\ inv[1].tool = inv[2].tool
    /\ inv[1].script.chunks = <<"c1", "c2">>
    /\ inv[2].script.chunks = <<"c2", "c1">>
    /\ inv[2].script.end.kind = "raised"
    /\ Cardinality(DOMAIN registry) = 2

C18_DisabledOrInvalidLeavesRegistry ==
    [][(/\ Defined
        /\ \/ ~IsTool(NewClass)
           \/ NewClass.META[1].access_level = "DISABLED")
          => registry' = registry]_vars

\* An enabled class holds its name in the registry although a DISABLED class
\* of that name, and a class with no valid META, were defined after it.
C18_Witness ==
    \E i, j, k \in DOMAIN classes :
        /\ i < j
        /\ i < k
        /\ IsTool(classes[i])
        /\ IsTool(classes[j])
        /\ classes[j].META[1].access_level = "DISABLED"
        /\ classes[j].META[1].name = classes[i].META[1].name
        /\ ~IsTool(classes[k])
        /\ classes[i].META[1].name \in DOMAIN registry
        /\ registry[classes[i].META[1].name] = i

\* C19: after any sequence of class definitions every key k of the registry
\* maps to a class whose META.name is k, also when the class took its META
\* from a registered parent and so replaced the parent under that name.
C19_KeyIsMetaName ==
    /\ [](\A k \in DOMAIN registry :
             /\ registry[k] \in DOMAIN classes
             /\ IsTool(classes[registry[k]])
             /\ classes[registry[k]].META[1].name = k)
    /\ [][(/\ Defined
           /\ \E p \in DOMAIN classes :
                  /\ NewClass = classes[p]
                  /\ IsTool(classes[p])
                  /\ classes[p].META[1].name \in DOMAIN registry
                  /\ registry[classes[p].META[1].name] = p)
             => registry'[NewClass.META[1].name] = NewId]_vars

\* A class with the META of an earlier class holds the name both carry.
C19_Witness ==
    \E i, j \in DOMAIN classes :
        /\ i < j
        /\ IsTool(classes[i])
        /\ classes[j] = classes[i]
        /\ classes[i].META[1].name \in DOMAIN registry
        /\ registry[classes[i].META[1].name] = j

\* C20: DatabaseManager gives out a database handle only after a ping has
\* answered.  Always: _db set implies _client set; a connect attempt whose
\* ping fails leaves _db unset; the db accessor raises RuntimeError exactly
\* when _db is unset; and backoff calls a failing connect at most 5 times in
\* all, after which the failure reaches the caller.
C20_HandleOnlyAfterPing ==
    /\ [](/\ dbHandle # "None" => (dbClient # "None" /\ pinged)
          /\ lastAttempt = "ping_fails" => dbHandle = "None"
          /\ dbRead = "handle" => dbHandle # "None"
          /\ dbTries <= 5
          /\ dbCall = "trying" => dbTries < 5
          /\ dbCall = "raised" =>
                 (dbTries = 5 /\ lastAttempt \notin {"ok", "already"})
          /\ dbCall = "returned" => lastAttempt \in {"ok", "already"})
    /\ [][dbRead' # dbRead =>
             (dbRead' = "RuntimeError" <=> dbHandle = "None")]_vars

\* A connect gave up after five attempts, the last with a failing ping; the
\* client is set, the handle is not, and the accessor raised.
C20_Witness ==
    /\ dbCall = "raised"
    /\ dbTries = 5
    /\ lastAttempt = "ping_fails"
    /\ dbClient = "client"
    /\ dbHandle = "None"
    /\ dbRead = "RuntimeError"

\* What get_key is to give user for service by the calls made so far: the
\* value last set as that user's key, else the one last set as system key,
\* else None.
ExpectedKey(user, service) ==
    IF userSet[<<user, service>>] # "None" THEN userSet[<<user, service>>]
    ELSE systemSet[service]

\* The stored key of an owner for a service, as a sequence of length <= 1.
StoredKey(coll, owner, service) ==
    IF <<owner, service>> \in DOMAIN coll
    THEN <<Decrypt(coll[<<owner, service>>])>> ELSE <<>>

\* C21: after any sequence of set_key calls, get_key(service) gives the
\* value last set for (this user, service) if there is one, else the value
\* last set for (system, service), else None; a set_key of a user's key
\* changes neither the system key nor the key of any other user, and a
\* set_key of a system key changes what get_key gives to no user who has a
\* key of their own for the service.
C21_UserKeyThenSystemKey ==
    /\ [](\A u \in UserIds, s \in Services :
             get_key(keysCollection, u, s) = ExpectedKey(u, s))
    /\ [][(lastOp'.op = "get" /\ lastOp' # lastOp) =>
             lastOp'.result = ExpectedKey(lastOp'.user, lastOp'.service)]_vars
    /\ [][(lastOp'.op = "set" /\ ~lastOp'.system
             /\ keysCollection' # keysCollection) =>
             \A s \in Services :
                /\ systemSet[s] # "None" =>
                       StoredKey(keysCollection', "system", s) = <<systemSet[s]>>
                /\ \A u \in UserIds \ {lastOp'.user} :
                       get_key(keysCollection', u, s)
                          = get_key(keysCollection, u, s)]_vars
    /\ [][(lastOp'.op = "set" /\ lastOp'.system
             /\ keysCollection' # keysCollection) =>
             \A u \in UserIds, s \in Services :
                userSet[<<u, s>>] # "None" =>
                    get_key(keysCollection', u, s) = userSet[<<u, s>>]]_vars

====
